---- MODULE Spec2Model ----
(***************************************************************************)
(* A model of livereload/watcher.py: the polling Watcher (task registry,   *)
(* mtime diff, ignore rules, delay aggregation, pending changes) and the   *)
(* event-driven INotifyWatcher built on top of it.                         *)
(*                                                                         *)
(* Paths and patterns are sequences of one-character strings, so that      *)
(* os.path.splitext, fnmatch.fnmatchcase, str.replace and glob.glob are    *)
(* computed character by character, as the library computes them.          *)
(* A modification time is a positive integer; 0 stands for "no such file". *)
(* An examine call takes what goes wrong in it as an input: a glob.glob    *)
(* that raises TypeError, an os.path.getmtime that raises OSError, a task  *)
(* callback that raises.                                                   *)
(***************************************************************************)
EXTENDS Integers, Sequences, FiniteSets, TLC

\* ------------------------------------------------------------------ bounds

\* The largest modification time a file can carry (the clock of the run).
MaxMtime == 2
\* The most pending changes queued at any time.
MaxQueue == 2
\* The most ignore-configuration calls in one run.
MaxConfig == 1

\* ------------------------------------------------------------ the file tree

NoFile == 0

W_A == "w/a.js"
W_B == "w/b.js"
W_C == "w/c.o"
W_GIT_X == "w/.git/x"
W_S_HG_Y == "w/s/.hg/y"
POLLEN_X == "pollen_src/compiled/x"

\* Every file a run can create, in the order in which the directory listings
\* (os.walk, glob.glob) yield them.
Listing == <<W_A, W_B, W_C, W_GIT_X, W_S_HG_Y, POLLEN_X>>

Files == {Listing[i] : i \in 1..Len(Listing)}

\* Watch targets: directories, a file, glob patterns.
T_W == "w"
T_POLLEN == "pollen_src"
T_GLOB == "w/*.js"
T_RGLOB == "w/**/*"

AllTargets == {T_W, T_POLLEN, T_GLOB, T_RGLOB} \cup Files

\* The characters of the strings of the model.
Chars ==
    [s \in {W_A} |-> <<"w", "/", "a", ".", "j", "s">>]
    @@ [s \in {W_B} |-> <<"w", "/", "b", ".", "j", "s">>]
    @@ [s \in {W_C} |-> <<"w", "/", "c", ".", "o">>]
    @@ [s \in {W_GIT_X} |-> <<"w", "/", ".", "g", "i", "t", "/", "x">>]
    @@ [s \in {W_S_HG_Y} |-> <<"w", "/", "s", "/", ".", "h", "g", "/", "y">>]
    @@ [s \in {POLLEN_X} |-> <<"p", "o", "l", "l", "e", "n", "_", "s", "r", "c", "/",
                               "c", "o", "m", "p", "i", "l", "e", "d", "/", "x">>]
    @@ [s \in {T_W} |-> <<"w">>]
    @@ [s \in {T_POLLEN} |-> <<"p", "o", "l", "l", "e", "n", "_", "s", "r", "c">>]
    @@ [s \in {T_GLOB} |-> <<"w", "/", "*", ".", "j", "s">>]
    @@ [s \in {T_RGLOB} |-> <<"w", "/", "*", "*", "/", "*">>]
    @@ [s \in {"pollen_src/**/compiled/*"} |->
          <<"p", "o", "l", "l", "e", "n", "_", "s", "r", "c", "/", "*", "*", "/",
            "c", "o", "m", "p", "i", "l", "e", "d", "/", "*">>]
    @@ [s \in {".git"} |-> <<".", "g", "i", "t">>]
    @@ [s \in {".hg"} |-> <<".", "h", "g">>]
    @@ [s \in {".svn"} |-> <<".", "s", "v", "n">>]
    @@ [s \in {".cvs"} |-> <<".", "c", "v", "s">>]
    @@ [s \in {".pyc"} |-> <<".", "p", "y", "c">>]
    @@ [s \in {".pyo"} |-> <<".", "p", "y", "o">>]
    @@ [s \in {".o"} |-> <<".", "o">>]
    @@ [s \in {".swp"} |-> <<".", "s", "w", "p">>]
    @@ [s \in {".js"} |-> <<".", "j", "s">>]
    @@ [s \in {"compiled"} |-> <<"c", "o", "m", "p", "i", "l", "e", "d">>]

\* -------------------------------------------------------- string functions

Max(S) == CHOOSE x \in S : \A y \in S : y <= x

\* s[from..] starts with t
StartsAt(s, from, t) ==
    /\ from + Len(t) - 1 <= Len(s)
    /\ \A k \in 1..Len(t) : s[from + k - 1] = t[k]

\* str.replace(old, new): left to right, non-overlapping
RECURSIVE ReplaceFrom(_, _, _, _)
ReplaceFrom(s, i, old, new) ==
    IF i > Len(s) THEN <<>>
    ELSE IF StartsAt(s, i, old)
         THEN new \o ReplaceFrom(s, i + Len(old), old, new)
         ELSE <<s[i]>> \o ReplaceFrom(s, i + 1, old, new)

Replace(s, old, new) == ReplaceFrom(s, 1, old, new)

\* fnmatch.fnmatchcase over "*", "?" and literal characters; "*" and "?" match
\* any character, the separator included.
RECURSIVE fnmatchcase_at(_, _, _, _)
fnmatchcase_at(name, i, pat, j) ==
    IF j > Len(pat) THEN i > Len(name)
    ELSE IF pat[j] = "*"
         THEN \/ fnmatchcase_at(name, i, pat, j + 1)
              \/ i <= Len(name) /\ fnmatchcase_at(name, i + 1, pat, j)
         ELSE /\ i <= Len(name)
              /\ pat[j] = "?" \/ pat[j] = name[i]
              /\ fnmatchcase_at(name, i + 1, pat, j + 1)

fnmatchcase(name, pat) == fnmatchcase_at(name, 1, pat, 1)

\* the last index of character c in s, 0 when there is none
LastIndex(s, c) ==
    LET at == {i \in 1..Len(s) : s[i] = c}
    IN  IF at = {} THEN 0 ELSE Max(at)

\* os.path.splitext(p)[1]: from the last dot of the last component, unless the
\* component has only dots before it (".git" has no extension)
splitext(p) ==
    LET sep == LastIndex(p, "/")
        dot == LastIndex(p, ".")
    IN  IF dot > sep /\ \E i \in (sep + 1)..(dot - 1) : p[i] # "."
        THEN SubSeq(p, dot, Len(p))
        ELSE <<>>

\* the components of a path
RECURSIVE SplitFrom(_, _, _)
SplitFrom(p, i, cur) ==
    IF i > Len(p) THEN <<cur>>
    ELSE IF p[i] = "/" THEN <<cur>> \o SplitFrom(p, i + 1, <<>>)
    ELSE SplitFrom(p, i + 1, Append(cur, p[i]))

Split(p) == SplitFrom(p, 1, <<>>)

IsPrefix(a, b) == Len(a) <= Len(b) /\ SubSeq(b, 1, Len(a)) = a


\* ------------------------------------------------------------------- state

VARIABLES
    fs,                       \* the file system: path -> mtime, NoFile when absent
    _tasks,                   \* Watcher._tasks, in insertion order
    _changes,                 \* Watcher._changes, the pending (filepaths, delay) pairs
    _start,                   \* Watcher._start
    ignored_dirs,             \* Watcher.ignored_dirs
    ignored_file_extensions,  \* Watcher.ignored_file_extensions
    cls,                      \* the class get_watcher_class chose
    wm,                       \* INotifyWatcher.wm: the targets with an OS watch
    notifier,                 \* INotifyWatcher.notifier
    callback,                 \* INotifyWatcher.callback
    last,                     \* history: the last call, what it saw and what it returned
    since,                    \* history: operations since the last examine, capped at 2
    latest,                   \* history: target -> arguments of its most recent watch call
    drained,                  \* history: the queue at the last queuing, the pairs popped since
    budget                    \* calls of the ignore configuration left

vars == <<fs, _tasks, _changes, _start, ignored_dirs, ignored_file_extensions,
          cls, wm, notifier, callback, last, since, latest, drained, budget>>

None == "None"

\* self.notifier is None; a notifier is the number of notifiers constructed so far
NoNotifier == 0

\* the engine start time: files written before it carry a smaller or equal mtime
StartTime == 1

\* Watcher.ignore_patterns
ignore_patterns == <<"pollen_src/**/compiled/*">>

\* the default lists of Watcher.__init__
DefaultIgnoredDirs == <<".git", ".hg", ".svn", ".cvs">>

DefaultIgnoredExtensions == <<".pyc", ".pyo", ".o", ".swp">>

\* delays: a Python value with its type; numbers are in tenths of a second
IntDelay(n) == [type |-> "int", val |-> n]
FloatDelay(n) == [type |-> "float", val |-> n]
Forever == [type |-> "str", val |-> 0]
\* the delay None
NoDelay == [type |-> "NoneType", val |-> 0]

\* Python truthiness of a delay
Truthy(delay) ==
    CASE delay.type \in {"int", "float"} -> delay.val # 0
      [] delay.type = "str" -> TRUE
      [] OTHER -> FALSE

\* task callbacks: F0 declares no parameter, F1 declares one
Arity(func) == IF func = "F1" THEN 1 ELSE 0

\* per-task ignore predicates: IgnoreB is true of the files whose name starts with b
Basename(p) == SubSeq(p, LastIndex(p, "/") + 1, Len(p))

ApplyIgnore(ignore, path) ==
    ignore = "IgnoreB" /\ Basename(Chars[path]) # <<>> /\ Basename(Chars[path])[1] = "b"

\* dict helpers
Put(d, k, v) == [x \in (DOMAIN d) \cup {k} |-> IF x = k THEN v ELSE d[x]]
Update(d, e) == [x \in (DOMAIN d) \cup (DOMAIN e) |-> IF x \in DOMAIN e THEN e[x] ELSE d[x]]
Without(d, ks) == [x \in (DOMAIN d) \ ks |-> d[x]]
Elems(s) == {s[i] : i \in 1..Len(s)}

\* ------------------------------------------------------------ ignore rules

matches_glob(path, glob_pattern) ==
    fnmatchcase(Chars[path], Replace(Chars[glob_pattern], <<"/", "*", "*", "/">>, <<"*", "/">>))

\* os.path.splitext(filename)[1] of every file, computed once
Ext == [f \in Files |-> splitext(Chars[f])]

\* variant: no extension is ignored
should_ignore_never(filename) == FALSE

should_ignore(filename) ==
    Ext[filename] \in {Chars[e] : e \in Elems(ignored_file_extensions)}

\* matches_glob of every file and ignore pattern, computed once
MatchesGlob ==
    [f \in Files |-> [i \in 1..Len(ignore_patterns) |-> matches_glob(f, ignore_patterns[i])]]

should_ignore_by_glob(path) ==
    \E i \in 1..Len(ignore_patterns) : MatchesGlob[path][i]

\* ------------------------------------------------------- file system queries

isfile(path) == path \in Files /\ fs[path] # NoFile

\* the directories of f below path, when f lies below path
Below == [t \in AllTargets |-> [f \in Files |->
            IF IsPrefix(Chars[t] \o <<"/">>, Chars[f])
            THEN LET rel == Split(SubSeq(Chars[f], Len(Chars[t]) + 2, Len(Chars[f])))
                 IN  [under |-> TRUE, dirs |-> SubSeq(rel, 1, Len(rel) - 1)]
            ELSE [under |-> FALSE, dirs |-> <<>>]]]

isdir(path) == \E f \in Files : fs[f] # NoFile /\ Below[path][f].under

getmtime(path) == fs[path]

\* glob.has_magic and glob._ishidden of one path component
has_magic(c) == \E i \in 1..Len(c) : c[i] \in {"*", "?", "["}
ishidden(c) == Len(c) > 0 /\ c[1] = "."

\* glob.glob(pattern, recursive=True), component by component: "**" spans any
\* number of non-hidden directories, a wildcard component matches within one
\* level and skips hidden names unless the pattern component is hidden itself.
RECURSIVE glob_match(_, _)
glob_match(pc, fc) ==
    IF pc = <<>> THEN fc = <<>>
    ELSE IF pc[1] = <<"*", "*">>
         THEN \/ glob_match(Tail(pc), fc)
              \/ fc # <<>> /\ ~ishidden(fc[1]) /\ glob_match(pc, Tail(fc))
         ELSE /\ fc # <<>>
              /\ IF has_magic(pc[1])
                 THEN fnmatchcase(fc[1], pc[1]) /\ (ishidden(fc[1]) => ishidden(pc[1]))
                 ELSE fc[1] = pc[1]
              /\ glob_match(Tail(pc), Tail(fc))

\* glob_match of every target and file, computed once
GlobMatches ==
    [t \in AllTargets |-> [f \in Files |-> glob_match(Split(Chars[t]), Split(Chars[f]))]]

\* the files among the matches, in listing order (the directories among them
\* are dropped by the isfile test of is_file_changed)
glob(pattern) == SelectSeq(Listing, LAMBDA f : isfile(f) /\ GlobMatches[pattern][f])

\* variant: the ignored names are pruned from the top directory only
WalkedTop(path, f) ==
    /\ isfile(f)
    /\ Below[path][f].under
    /\ Below[path][f].dirs # <<>> =>
          Below[path][f].dirs[1] \notin {Chars[d] : d \in Elems(ignored_dirs)}

\* os.walk(path, followlinks=True) with the ignored directory names pruned:
\* the files below path none of whose directories, below path, is ignored
Walked(path, f) ==
    /\ isfile(f)
    /\ Below[path][f].under
    /\ \A i \in 1..Len(Below[path][f].dirs) :
          Below[path][f].dirs[i] \notin {Chars[d] : d \in Elems(ignored_dirs)}

walk(path) == SelectSeq(Listing, LAMBDA f : Walked(path, f))


\* ---------------------------------------------------------------- the diff

\* The scratch fields of one is_changed call: st.task_mtimes is the task's
\* table (self._task_mtimes aliases item["mtimes"]), st.new_mtimes is
\* self._new_mtimes, st.filepaths is self.filepaths. st.fault says what goes
\* wrong in this examine call, st.error whether an exception is on its way up.

\* What goes wrong in one examine call: the glob patterns whose expansion
\* raises TypeError, the files whose os.path.getmtime raises OSError, the
\* targets whose callback raises.
NoFault == [glob |-> {}, mtime |-> {}, call |-> {}]
GlobFault(target) == [glob |-> {target}, mtime |-> {}, call |-> {}]
MtimeFault(f) == [glob |-> {}, mtime |-> {f}, call |-> {}]
CallFault(target) == [glob |-> {}, mtime |-> {}, call |-> {target}]

\* os.path.getmtime raised: nothing is staged, the exception leaves the diff
Erred(st) == [changed |-> FALSE, st |-> [st EXCEPT !.error = TRUE]]

\* variant: a recorded file is never found modified
ModifiedNever(recorded, mtime) == FALSE

\* the comparison of the recorded mtime with the current one

Modified(recorded, mtime) == recorded # mtime

Staged(path, mtime, st) == [st EXCEPT !.new_mtimes = Put(@, path, mtime)]

Listed(path, mtime, st) ==
    [st EXCEPT !.new_mtimes = Put(@, path, mtime), !.filepaths = Append(@, path)]

\* variant: a file seen for the first time always counts as changed
ComparedNew(path, mtime, st) ==
    IF path \notin DOMAIN st.task_mtimes
    THEN [changed |-> TRUE, st |-> Listed(path, mtime, st)]
    ELSE IF Modified(st.task_mtimes[path], mtime)
    THEN [changed |-> TRUE, st |-> Listed(path, mtime, st)]
    ELSE [changed |-> FALSE, st |-> Staged(path, mtime, st)]

\* lines 202-213: the comparison with the table, once the mtime is read
Compared(path, mtime, st) ==
    IF path \notin DOMAIN st.task_mtimes
    THEN [changed |-> mtime > _start, st |-> Listed(path, mtime, st)]
    ELSE IF Modified(st.task_mtimes[path], mtime)
    THEN [changed |-> TRUE, st |-> Listed(path, mtime, st)]
    ELSE [changed |-> FALSE, st |-> Staged(path, mtime, st)]

is_file_changed(path, ignore, st) ==
    IF ~isfile(path) THEN [changed |-> FALSE, st |-> st]
    ELSE IF should_ignore(path) THEN [changed |-> FALSE, st |-> st]
    ELSE IF should_ignore_by_glob(path) THEN [changed |-> FALSE, st |-> st]
    ELSE IF ignore # None /\ ApplyIgnore(ignore, path) THEN [changed |-> FALSE, st |-> st]
    ELSE IF path \in st.fault.mtime THEN Erred(st)
    ELSE Compared(path, getmtime(path), st)

\* the loop of is_folder_changed over the files the walk yields; r is what
\* is_file_changed returned for files[i]
RECURSIVE folder_loop(_, _, _, _, _)
RECURSIVE folder_step(_, _, _, _, _)
folder_step(files, i, ignore, change, r) ==
    folder_loop(files, i + 1, ignore, change \/ r.changed, r.st)

folder_loop(files, i, ignore, change, st) ==
    IF i > Len(files) \/ st.error THEN [changed |-> change, st |-> st]
    ELSE folder_step(files, i, ignore, change, is_file_changed(files[i], ignore, st))

is_folder_changed(path, ignore, st) == folder_loop(walk(path), 1, ignore, FALSE, st)

\* the list comprehension of get_changed_glob_files
RECURSIVE glob_loop(_, _, _, _, _)
RECURSIVE glob_step(_, _, _, _, _)
glob_step(files, i, ignore, changed_files, r) ==
    glob_loop(files, i + 1, ignore,
              IF r.changed THEN Append(changed_files, files[i]) ELSE changed_files, r.st)

glob_loop(files, i, ignore, changed_files, st) ==
    IF i > Len(files) \/ st.error THEN [changed |-> changed_files, st |-> st]
    ELSE glob_step(files, i, ignore, changed_files, is_file_changed(files[i], ignore, st))

\* glob.glob raises TypeError: the except clause makes the result the empty list
get_changed_glob_files(path, ignore, st) ==
    IF path \in st.fault.glob THEN [changed |-> <<>>, st |-> st]
    ELSE glob_loop(glob(path), 1, ignore, <<>>, st)

\* variant: removals go unnoticed
is_file_removed_none(st) == [changed |-> FALSE, st |-> st]

is_file_removed(st) ==
    LET removed_paths == (DOMAIN st.task_mtimes) \ (DOMAIN st.new_mtimes)
    IN  IF removed_paths = {}
        THEN [changed |-> FALSE, st |-> st]
        ELSE [changed |-> TRUE,
              st |-> [st EXCEPT !.task_mtimes = Without(@, removed_paths)]]

\* The value is_changed returns is a bool (file, folder, removal) or the list
\* of changed files (glob): list says which, truthy is its truth value.
BoolValue(b) == [list |-> FALSE, truthy |-> b, items |-> <<>>]
ListValue(l) == [list |-> TRUE, truthy |-> l # <<>>, items |-> l]

\* whether the removal check runs after the add/modify check found `changed`
RemovalChecked(changed) == ~changed.truthy

AsBool(r) == [changed |-> BoolValue(r.changed), st |-> r.st]
AsList(r) == [changed |-> ListValue(r.changed), st |-> r.st]

\* lines 151-156: the check for additions and modifications, by kind of target
Found(path, ignore, st) ==
    IF isfile(path) THEN AsBool(is_file_changed(path, ignore, st))
    ELSE IF isdir(path) THEN AsBool(is_folder_changed(path, ignore, st))
    ELSE AsList(get_changed_glob_files(path, ignore, st))

\* lines 158-159
CheckRemoved(found) ==
    IF found.st.error THEN found
    ELSE IF RemovalChecked(found.changed) THEN AsBool(is_file_removed(found.st))
    ELSE found

\* variant: the staged mtimes are committed in a finally clause
FinalizedAlways(after) ==
    [changed |-> after.changed,
     st |-> [after.st EXCEPT !.task_mtimes = Update(@, after.st.new_mtimes)]]

\* lines 161-162, which an exception of the diff skips
Finalized(after) ==
    IF after.st.error THEN after
    ELSE [changed |-> after.changed,
          st |-> [after.st EXCEPT !.task_mtimes = Update(@, after.st.new_mtimes)]]

is_changed(path, ignore, st0) ==
    Finalized(CheckRemoved(Found(path, ignore, [st0 EXCEPT !.new_mtimes = <<>>])))

\* -------------------------------------------------------------- the registry

Task(path, func, delay, ignore) ==
    [path |-> path, func |-> func, delay |-> delay, ignore |-> ignore, mtimes |-> <<>>]

Targets(tasks) == {tasks[i].path : i \in 1..Len(tasks)}

IndexOf(tasks, path) == CHOOSE i \in 1..Len(tasks) : tasks[i].path = path

\* variant: the registry is a list, every call adds a task
RegisteredAppend(tasks, task) == Append(tasks, task)

\* self._tasks[path] = {...}: a dict keeps the position of a key it already holds
Registered(tasks, task) ==
    IF task.path \in Targets(tasks)
    THEN [tasks EXCEPT ![IndexOf(tasks, task.path)] = task]
    ELSE Append(tasks, task)

\* ------------------------------------------------------------------ examine

\* variant: every truthy delay counts, whatever its type
DelayCountsTruthy(delay) == Truthy(delay)

\* whether a changed task's delay enters the set of delays
DelayCounts(delay) == Truthy(delay) /\ delay.type = "float"

\* max(delays), None (NoDelay) when the set is empty
MaxDelay(delays) ==
    IF delays = {} THEN NoDelay
    ELSE CHOOSE d \in delays : \A e \in delays : e.val <= d.val

\* the call of a task's callback: with the changed list, or with no argument
Call(item, changed) ==
    [task |-> item.path, func |-> item.func,
     args |-> IF Arity(item.func) > 0 /\ changed.list THEN <<changed.items>> ELSE <<>>]

\* no exception left examine
NotRaised == [at |-> 0, cause |-> None]

\* lines 115-116: the task's table and self.filepaths after its diff
Diffed(i, acc, r) ==
    [acc EXCEPT !.tasks[i].mtimes = r.st.task_mtimes, !.filepaths = r.st.filepaths,
                !.trace = Append(@, <<"diff", acc.tasks[i].path>>)]

\* lines 117-132: a changed task adds its delay and runs its callback
Triggered(acc, item, changed) ==
    [acc EXCEPT
       !.delays = IF DelayCounts(item.delay) THEN @ \cup {item.delay} ELSE @,
       !.calls = IF item.func # None THEN Append(@, Call(item, changed)) ELSE @,
       !.trace = IF item.func # None THEN Append(@, <<"call", item.path>>) ELSE @,
       !.changed = Append(@, item.path)]

\* variant: examine catches what a callback raises
ThrownCaught(acc, i, item) == acc

\* lines 127-132: nothing catches what the callback of task i raises
Thrown(acc, i, item) ==
    IF item.func # None /\ item.path \in acc.fault.call
    THEN [acc EXCEPT !.raised = [at |-> i, cause |-> "callback"]]
    ELSE acc

\* line 116: the exception of a file system query leaves is_changed, and
\* examine; the task's table is the object is_changed worked on
Failed(i, acc, r) ==
    [acc EXCEPT !.tasks[i].mtimes = r.st.task_mtimes, !.filepaths = r.st.filepaths,
                !.raised = [at |-> i, cause |-> "getmtime"],
                !.trace = Append(@, <<"diff", acc.tasks[i].path>>)]

\* variant: the callback of every task runs, changed or not
SteppedAlways(i, acc, item, r) ==
    IF r.st.error THEN Failed(i, acc, r)
    ELSE Thrown(Triggered(Diffed(i, acc, r), item, r.changed), i, item)

\* lines 114-132: the body of the loop, for task i
Stepped(i, acc, item, r) ==
    IF r.st.error THEN Failed(i, acc, r)
    ELSE IF r.changed.truthy
    THEN Thrown(Triggered(Diffed(i, acc, r), item, r.changed), i, item)
    ELSE Diffed(i, acc, r)

\* The loop of examine over the tasks, in the order of the registry. acc holds
\* the registry with the tables as updated so far, self.filepaths, the set of
\* delays, what goes wrong in this call and the exception that left the loop,
\* and the history of the scan: the callbacks invoked, the targets reported
\* changed and the diffs and calls, in order. r is what is_changed returned
\* for task i.
RECURSIVE examine_loop(_, _)
RECURSIVE examine_step(_, _, _, _)
examine_step(i, acc, item, r) == examine_loop(i + 1, Stepped(i, acc, item, r))

examine_loop(i, acc) ==
    IF i > Len(acc.tasks) \/ acc.raised # NotRaised THEN acc
    ELSE examine_step(i, acc, acc.tasks[i],
                      is_changed(acc.tasks[i].path, acc.tasks[i].ignore,
                                 [task_mtimes |-> acc.tasks[i].mtimes, new_mtimes |-> <<>>,
                                  filepaths |-> acc.filepaths, fault |-> acc.fault,
                                  error |-> FALSE]))

examine_scan(fault) ==
    examine_loop(1, [tasks |-> _tasks, filepaths |-> <<>>, delays |-> {},
                     calls |-> <<>>, changed |-> <<>>, trace |-> <<>>,
                     fault |-> fault, raised |-> NotRaised])

\* ------------------------------------------------------------------ actions

Other == [kind |-> "other"]

Bump(n) == IF n < 2 THEN n + 1 ELSE 2

Program == <<_tasks, _changes, _start, ignored_dirs, ignored_file_extensions,
             cls, wm, notifier, callback>>

\* a file is created or rewritten with modification time m
WriteFile(f, m) ==
    /\ fs[f] # m
    /\ fs' = [fs EXCEPT ![f] = m]
    /\ last' = Other
    /\ since' = Bump(since)
    /\ UNCHANGED <<Program, latest, drained, budget>>

RemoveFile(f) ==
    /\ fs[f] # NoFile
    /\ fs' = [fs EXCEPT ![f] = NoFile]
    /\ last' = Other
    /\ since' = Bump(since)
    /\ UNCHANGED <<Program, latest, drained, budget>>

\* Watcher.watch, and INotifyWatcher.watch, which arms an OS watch first
watch(path, func, delay, ignore) ==
    /\ wm' = IF cls = "INotifyWatcher" THEN wm \cup {path} ELSE wm
    /\ _tasks' = Registered(_tasks, Task(path, func, delay, ignore))
    /\ latest' = Put(latest, path, Task(path, func, delay, ignore))
    /\ last' = [kind |-> "watch", task |-> Task(path, func, delay, ignore), before |-> _tasks,
                repeat |-> last.kind = "watch" /\ last.task = Task(path, func, delay, ignore)]
    /\ since' = Bump(since)
    /\ UNCHANGED <<fs, _changes, _start, ignored_dirs, ignored_file_extensions,
                   cls, notifier, callback, drained, budget>>

\* a caller queues a pending (filepaths, delay) pair
QueueChange(pair) ==
    /\ Len(_changes) < MaxQueue
    /\ _changes' = Append(_changes, pair)
    /\ drained' = [queued |-> _changes', popped |-> <<>>]
    /\ last' = Other
    /\ since' = Bump(since)
    /\ UNCHANGED <<fs, _tasks, _start, ignored_dirs, ignored_file_extensions,
                   cls, wm, notifier, callback, latest, budget>>

\* variant: the queue is popped from its head
PopFirst(changes) == [value |-> changes[1], rest |-> Tail(changes)]

\* self._changes.pop(): the last element, and the list without it
Pop(changes) ==
    [value |-> changes[Len(changes)], rest |-> SubSeq(changes, 1, Len(changes) - 1)]

\* the exception that left the examine call before this one, if one did
PrevRaised == IF last.kind = "raised" THEN last.raised ELSE NotRaised

\* variant: a pop takes the current tree as the new baseline of every task
PoppingRebased(p) ==
    /\ _changes' = p.rest
    /\ last' = [kind |-> "pop", prev |-> last.kind, since |-> since,
                pending |-> _changes, before |-> _tasks,
                filepaths |-> p.value[1], delay |-> p.value[2],
                calls |-> <<>>, changed |-> <<>>]
    /\ drained' = [drained EXCEPT !.popped = Append(@, p.value)]
    /\ _tasks' = [i \in 1..Len(_tasks) |->
                    [_tasks[i] EXCEPT !.mtimes = [f \in {g \in DOMAIN @ : isfile(g)} |-> fs[f]]]]

\* lines 107-108: a pending pair is popped and returned
Popping(p) ==
    /\ _changes' = p.rest
    /\ last' = [kind |-> "pop", prev |-> last.kind, since |-> since,
                pending |-> _changes, before |-> _tasks,
                filepaths |-> p.value[1], delay |-> p.value[2],
                calls |-> <<>>, changed |-> <<>>]
    /\ drained' = [drained EXCEPT !.popped = Append(@, p.value)]
    /\ UNCHANGED _tasks

\* lines 110-138: the scan, r being what the loop over the tasks left; when an
\* exception left the loop, examine returns nothing
Scanning(r) ==
    /\ _tasks' = r.tasks
    /\ last' = [kind |-> IF r.raised = NotRaised THEN "scan" ELSE "raised",
                prev |-> last.kind, prevraised |-> PrevRaised, since |-> since,
                pending |-> _changes, before |-> _tasks,
                filepaths |-> r.filepaths, delay |-> MaxDelay(r.delays),
                calls |-> r.calls, changed |-> r.changed,
                trace |-> r.trace, fault |-> r.fault, raised |-> r.raised]
    /\ UNCHANGED <<_changes, drained>>

\* examine, in a call where `fault` goes wrong
examine_with(fault) ==
    /\ IF _changes # <<>> THEN Popping(Pop(_changes)) ELSE Scanning(examine_scan(fault))
    /\ since' = 0
    /\ UNCHANGED <<fs, _start, ignored_dirs, ignored_file_extensions,
                   cls, wm, notifier, callback, latest, budget>>

examine == examine_with(NoFault)

\* an examine call in which something that is there to fail does fail
examine_failing(fault) ==
    /\ fault.glob \cup fault.call \subseteq Targets(_tasks)
    /\ \A f \in fault.mtime : isfile(f)
    /\ examine_with(fault)

ignore_file_extension(extension) ==
    /\ budget > 0
    /\ budget' = budget - 1
    /\ ignored_file_extensions' = Append(ignored_file_extensions, extension)
    /\ last' = Other
    /\ since' = Bump(since)
    /\ UNCHANGED <<fs, _tasks, _changes, _start, ignored_dirs, cls, wm, notifier, callback,
                   latest, drained>>

ignore_dirs(d) ==
    /\ budget > 0
    /\ budget' = budget - 1
    /\ ignored_dirs' = Append(ignored_dirs, d)
    /\ last' = Other
    /\ since' = Bump(since)
    /\ UNCHANGED <<fs, _tasks, _changes, _start, ignored_file_extensions, cls, wm, notifier,
                   callback, latest, drained>>

\* list.remove: the first occurrence
RemoveFirst(s, x) ==
    LET i == CHOOSE k \in 1..Len(s) : s[k] = x /\ \A j \in 1..(k - 1) : s[j] # x
    IN  SubSeq(s, 1, i - 1) \o SubSeq(s, i + 1, Len(s))

remove_dirs_from_ignore(d) ==
    /\ budget > 0
    /\ d \in Elems(ignored_dirs)
    /\ budget' = budget - 1
    /\ ignored_dirs' = RemoveFirst(ignored_dirs, d)
    /\ last' = Other
    /\ since' = Bump(since)
    /\ UNCHANGED <<fs, _tasks, _changes, _start, ignored_file_extensions, cls, wm, notifier,
                   callback, latest, drained>>

\* variant: every start arms a new notifier
StartArmsAlways(n) == TRUE

\* "if not self.notifier": whether start arms a notifier
StartArms(n) == n = NoNotifier

\* Watcher.start returns False; INotifyWatcher.start stores the callback, arms
\* the notifier and calls the callback, once, and returns True
start(cb) ==
    /\ IF cls = "INotifyWatcher"
       THEN IF StartArms(notifier)
            THEN /\ callback' = cb
                 /\ notifier' = notifier + 1
                 /\ last' = [kind |-> "start", cb |-> cb, ret |-> TRUE, calls |-> <<cb>>,
                             notifier |-> notifier, callback |-> callback, before |-> _tasks]
            ELSE /\ last' = [kind |-> "start", cb |-> cb, ret |-> TRUE, calls |-> <<>>,
                             notifier |-> notifier, callback |-> callback, before |-> _tasks]
                 /\ UNCHANGED <<notifier, callback>>
       ELSE /\ last' = [kind |-> "start", cb |-> cb, ret |-> FALSE, calls |-> <<>>,
                        notifier |-> notifier, callback |-> callback, before |-> _tasks]
            /\ UNCHANGED <<notifier, callback>>
    /\ since' = Bump(since)
    /\ UNCHANGED <<fs, _tasks, _changes, _start, ignored_dirs, ignored_file_extensions,
                   cls, wm, latest, drained, budget>>

\* the notifier dispatches an OS event on a watched target to inotify_event
inotify_event ==
    /\ cls = "INotifyWatcher"
    /\ notifier # NoNotifier
    /\ wm # {}
    /\ last' = [kind |-> "event", calls |-> <<callback>>, before |-> _tasks]
    /\ since' = Bump(since)
    /\ UNCHANGED <<fs, Program, latest, drained, budget>>

\* ------------------------------------------------------------ specification

\* Watcher.__init__ and INotifyWatcher.__init__ on an empty tree
Constructed ==
    /\ fs = [f \in Files |-> NoFile]
    /\ _tasks = <<>>
    /\ _changes = <<>>
    /\ _start = StartTime
    /\ ignored_dirs = DefaultIgnoredDirs
    /\ ignored_file_extensions = DefaultIgnoredExtensions
    /\ cls \in {"Watcher", "INotifyWatcher"}
    /\ wm = {}
    /\ notifier = NoNotifier
    /\ callback = None
    /\ last = [kind |-> "init"]
    /\ since = 0
    /\ latest = <<>>
    /\ drained = [queued |-> <<>>, popped |-> <<>>]
    /\ budget = MaxConfig

Mtimes == 1..MaxMtime

\* the pending changes a caller queues
Pairs == {<<<<W_A>>, NoDelay>>, <<<<W_B>>, FloatDelay(10)>>}

\* The polling watcher over two files of one directory, watched as a directory
\* and through a glob pattern.
Init == Constructed /\ cls = "Watcher"

Next ==
    \/ \E f \in {W_A, W_B}, m \in Mtimes : WriteFile(f, m)
    \/ \E f \in {W_A, W_B} : RemoveFile(f)
    \/ \E path \in {T_W, T_GLOB}, a \in {<<None, IntDelay(0)>>, <<"F1", FloatDelay(10)>>} :
          watch(path, a[1], a[2], None)
    \/ examine

Spec == Init /\ [][Next]_vars

\* The polling watcher with callers that queue pending changes.
NextQueue ==
    \/ \E m \in Mtimes : WriteFile(W_A, m)
    \/ RemoveFile(W_A)
    \/ watch(T_W, "F1", FloatDelay(10), None)
    \/ \E pair \in Pairs : QueueChange(pair)
    \/ examine

SpecQueue == Init /\ [][NextQueue]_vars

\* The polling watcher over two file tasks with delays of every type.
Delays == {FloatDelay(10), FloatDelay(25), IntDelay(20), Forever}

NextDelay ==
    \/ \E f \in {W_A, W_B}, m \in Mtimes : WriteFile(f, m)
    \/ \E f \in {W_A, W_B} : RemoveFile(f)
    \/ \E path \in {W_A, W_B}, delay \in Delays :
          watch(path, IF delay = Forever THEN "F0" ELSE None, delay, None)
    \/ examine

SpecDelay == Init /\ [][NextDelay]_vars

\* The polling watcher over files that the ignore rules cover.
NextIgnore ==
    \/ \E f \in {W_B, W_C, POLLEN_X}, m \in Mtimes : WriteFile(f, m)
    \/ \E f \in {W_B, W_C, POLLEN_X} : RemoveFile(f)
    \/ \E ignore \in {None, "IgnoreB"} : watch(T_W, None, IntDelay(0), ignore)
    \/ watch(T_POLLEN, "F1", FloatDelay(10), None)
    \/ ignore_file_extension(".js")
    \/ examine

SpecIgnore == Init /\ [][NextIgnore]_vars

\* Either class, as get_watcher_class chooses it, driven through start.
Callbacks == {"CB1", "CB2"}

NextNotify ==
    \/ \E m \in Mtimes : WriteFile(W_A, m)
    \/ RemoveFile(W_A)
    \/ watch(T_W, "F0", NoDelay, None)
    \/ \E cb \in Callbacks : start(cb)
    \/ inotify_event
    \/ examine

SpecNotify == Constructed /\ [][NextNotify]_vars

\* The polling watcher over a directory task and a glob task, with examine
\* calls in which the expansion of the pattern, the reading of an mtime or a
\* callback fails.
Faults == {GlobFault(T_GLOB), MtimeFault(W_B), CallFault(T_W)}

NextFault ==
    \/ \E f \in {W_A, W_B}, m \in Mtimes : WriteFile(f, m)
    \/ \E f \in {W_A, W_B} : RemoveFile(f)
    \/ watch(T_W, "F0", FloatDelay(10), None)
    \/ watch(T_GLOB, "F1", FloatDelay(25), None)
    \/ examine
    \/ \E fault \in Faults : examine_failing(fault)

SpecFault == Init /\ [][NextFault]_vars

\* The polling watcher over a directory with files below version-control
\* directories, at two depths, and a list of ignored directories that grows
\* and shrinks.
NextPrune ==
    \/ \E f \in {W_A, W_GIT_X, W_S_HG_Y}, m \in Mtimes : WriteFile(f, m)
    \/ \E f \in {W_A, W_GIT_X, W_S_HG_Y} : RemoveFile(f)
    \/ watch(T_W, "F0", FloatDelay(10), None)
    \/ ignore_dirs(".hg")
    \/ remove_dirs_from_ignore(".hg")
    \/ examine

SpecPrune == Init /\ [][NextPrune]_vars


\* ------------------------------------------------------------------- claims

\* whether one of the ignore rules holds of a file, for a task's predicate
Ignored(f, ignore) ==
    \/ should_ignore(f)
    \/ should_ignore_by_glob(f)
    \/ ignore # None /\ ApplyIgnore(ignore, f)

\* the files that exist under a task's target
Covered(path) ==
    IF isfile(path) THEN {path}
    ELSE IF isdir(path) THEN Elems(walk(path))
    ELSE Elems(glob(path))

\* the non-ignored files that exist under a task's target
Watched(task) == {f \in Covered(task.path) : ~Ignored(f, task.ignore)}

\* the last call was an examine that scanned
Scanned == last.kind = "scan"

\* the last two calls were scanning examines, with nothing between them
ScannedTwice == Scanned /\ last.prev = "scan" /\ last.since = 0

\* C1: the second of two examine calls with nothing between them returns an
\* empty changed-path list and delay None, and invokes no callback.
C1_Idempotent ==
    ScannedTwice => last.filepaths = <<>> /\ last.delay = NoDelay /\ last.calls = <<>>

\* C2: after a scan the table of every task holds exactly the non-ignored files
\* under its target, each with its current mtime.
C2_NoStaleEntries ==
    Scanned =>
        \A i \in 1..Len(_tasks) :
            /\ DOMAIN _tasks[i].mtimes = Watched(_tasks[i])
            /\ \A f \in DOMAIN _tasks[i].mtimes : _tasks[i].mtimes[f] = fs[f]

\* f is recorded in the table task b had before the scan, with another mtime
\* than the one f has now
ModifiedSince(b, f) ==
    /\ f \in DOMAIN b.mtimes
    /\ f \in Watched(b)
    /\ b.mtimes[f] # fs[f]

\* C3: when the only operation between two scans is a write that changes the
\* mtime of a recorded, non-ignored file, the scan lists that path and no other;
\* a scan that directly follows a scan lists nothing.
C3_ModificationDetected ==
    /\ (Scanned /\ last.since = 1) =>
          \A i \in 1..Len(last.before) : \A f \in Files :
              ModifiedSince(last.before[i], f) => Elems(last.filepaths) = {f}
    /\ ScannedTwice => last.filepaths = <<>>

C3_Witness ==
    /\ Scanned /\ last.since = 1
    /\ \E i \in 1..Len(last.before) : ModifiedSince(last.before[i], W_A)
    /\ last.filepaths = <<W_A>>

\* task b, as it was before the scan, records p, p is gone, and no file of b
\* was added or modified
OnlyRemoved(b, p) ==
    /\ p \in DOMAIN b.mtimes
    /\ ~isfile(p)
    /\ \A f \in Watched(b) : f \in DOMAIN b.mtimes /\ b.mtimes[f] = fs[f]

Called(path) == \E k \in 1..Len(last.calls) : last.calls[k].task = path

\* C5: a scan that finds a recorded path gone, and nothing added or modified
\* in the task, reports the task changed (callback invoked, float delay counted)
\* and drops the path from the table.
C5_RemovalDetected ==
    Scanned =>
        \A i \in 1..Len(last.before) : \A p \in Files :
            OnlyRemoved(last.before[i], p) =>
                /\ last.before[i].path \in Elems(last.changed)
                /\ p \notin DOMAIN _tasks[i].mtimes
                /\ last.before[i].func # None => Called(last.before[i].path)
                /\ (last.before[i].delay.type = "float" /\ last.before[i].delay.val > 0) =>
                      last.delay # NoDelay /\ last.delay.val >= last.before[i].delay.val

C5_Witness ==
    /\ Scanned
    /\ \E i \in 1..Len(last.before) :
          /\ OnlyRemoved(last.before[i], W_A)
          /\ last.before[i].func # None
          /\ last.before[i].delay.type = "float"
          /\ W_B \in DOMAIN _tasks[i].mtimes

Config(task) == <<task.func, task.delay, task.ignore>>

\* C9: the registry holds one task per target, with the arguments of the most
\* recent watch call for it, and a watch call that repeats the call before it
\* leaves the registry as it was.
C9_LastRegistrationWins ==
    /\ \A i, j \in 1..Len(_tasks) : _tasks[i].path = _tasks[j].path => i = j
    /\ Targets(_tasks) = DOMAIN latest
    /\ \A i \in 1..Len(_tasks) : Config(_tasks[i]) = Config(latest[_tasks[i].path])
    /\ (last.kind = "watch" /\ last.repeat) => _tasks = last.before

C9_Witness ==
    /\ last.kind = "watch"
    /\ Len(_tasks) = 2
    /\ last.task.path \in Targets(last.before)
    /\ Config(last.before[IndexOf(last.before, last.task.path)]) # Config(last.task)
    /\ last.before[IndexOf(last.before, last.task.path)].mtimes # <<>>


EndsWith(s, t) == Len(t) <= Len(s) /\ SubSeq(s, Len(s) - Len(t) + 1, Len(s)) = t

\* C4: no path of a scan's changed-path list has an ignored extension or
\* matches an ignore pattern, and each is under a task whose predicate does
\* not reject it.
C4_IgnoredNeverReported ==
    Scanned =>
        \A p \in Elems(last.filepaths) :
            /\ \A e \in Elems(ignored_file_extensions) : ~EndsWith(Chars[p], Chars[e])
            /\ \A i \in 1..Len(ignore_patterns) : ~matches_glob(p, ignore_patterns[i])
            /\ \E i \in 1..Len(_tasks) :
                  /\ p \in Covered(_tasks[i].path)
                  /\ ~ApplyIgnore(_tasks[i].ignore, p)

C4_Witness ==
    /\ Scanned
    /\ fs[W_B] > _start /\ fs[W_C] > _start /\ fs[POLLEN_X] > _start
    /\ Targets(_tasks) = {T_W, T_POLLEN}
    /\ \E i \in 1..Len(_tasks) : _tasks[i].ignore = "IgnoreB"
    /\ last.filepaths = <<>>
    /\ last.since > 0

\* the tasks a scan reported changed, as they were registered
ChangedTasks == {last.before[i] : i \in {k \in 1..Len(last.before) :
                                          last.before[k].path \in Elems(last.changed)}}

\* the delays, in tenths of a second, of the changed tasks whose delay is a number
NumericDelays == {b.delay.val : b \in {c \in ChangedTasks : c.delay.type \in {"int", "float"}}}

\* C6: the delay a scan returns is the maximum of the numeric delays of the
\* tasks it reported changed, and None exactly when there is none.
C6_DelayIsMaximum ==
    Scanned =>
        IF NumericDelays = {}
        THEN last.delay = NoDelay
        ELSE last.delay # NoDelay /\ last.delay.val = Max(NumericDelays)

\* the delay examine computes from a set of changed tasks
Aggregate(tasks) == MaxDelay({b.delay : b \in {c \in tasks : DelayCounts(c.delay)}})

\* C7: the delay a scan returns is the one it would return had no task with
\* the 'forever' delay changed, and the callback of such a task is invoked
\* when it changed.
C7_ForeverNeverCounts ==
    Scanned =>
        /\ last.delay = Aggregate({b \in ChangedTasks : b.delay # Forever})
        /\ \A b \in ChangedTasks : (b.delay = Forever /\ b.func # None) => Called(b.path)

C7_Witness ==
    /\ Scanned
    /\ \E b, c \in ChangedTasks : b.delay = Forever /\ c.delay = FloatDelay(25)
    /\ last.delay = FloatDelay(25)
    /\ Len(last.calls) = 1

RECURSIVE Reverse(_)
Reverse(q) == IF q = <<>> THEN <<>> ELSE Append(Reverse(Tail(q)), q[1])

\* C8: the pairs popped since the last queuing are the tail of the queue as it
\* was then, most recent first, each popped once; an examine call pops when a
\* pair is pending and scans only when none is.
C8_PendingPoppedOnce ==
    /\ drained.queued = _changes \o Reverse(drained.popped)
    /\ last.kind = "pop" =>
          /\ last.pending # <<>>
          /\ <<last.filepaths, last.delay>> = drained.popped[Len(drained.popped)]
          /\ _tasks = last.before
    /\ Scanned => last.pending = <<>>

C8_Witness ==
    /\ Scanned
    /\ Len(drained.queued) = 2
    /\ drained.queued[1] # drained.queued[2]
    /\ drained.popped = Reverse(drained.queued)

\* C10: the first start of the event-driven watcher stores the callback, arms
\* the notifier, calls the callback once and returns true; a later start
\* returns true and changes and calls nothing; a notification calls the stored
\* callback once and leaves the tasks alone; the polling watcher's start
\* returns false and calls nothing.
C10_Start ==
    /\ (last.kind = "start" /\ cls = "INotifyWatcher") =>
          /\ last.ret = TRUE
          /\ IF last.notifier = NoNotifier
             THEN /\ callback = last.cb
                  /\ notifier # NoNotifier
                  /\ last.calls = <<last.cb>>
             ELSE /\ callback = last.callback
                  /\ notifier = last.notifier
                  /\ last.calls = <<>>
          /\ _tasks = last.before
    /\ (last.kind = "start" /\ cls = "Watcher") =>
          /\ last.ret = FALSE
          /\ last.calls = <<>>
          /\ notifier = NoNotifier /\ callback = None
    /\ last.kind = "event" =>
          /\ callback # None
          /\ last.calls = <<callback>>
          /\ _tasks = last.before

C10_Witness ==
    /\ last.kind = "start"
    /\ cls = "INotifyWatcher"
    /\ last.notifier # NoNotifier
    /\ last.cb # callback
    /\ _tasks # <<>>

\* f is a non-ignored file under the target of task b that its table, as it
\* was before the scan, does not hold
FirstSeen(b, f) == f \in Watched(b) /\ f \notin DOMAIN b.mtimes

\* the table of task b, as it was before the scan, holds p, which is no longer
\* a non-ignored file under its target
Gone(b, p) == p \in DOMAIN b.mtimes /\ p \notin Watched(b)

\* apart from file f, nothing under the target of task b differs from its table
NothingElse(b, f) ==
    /\ \A g \in Watched(b) \ {f} : g \in DOMAIN b.mtimes /\ b.mtimes[g] = fs[g]
    /\ \A p \in Files : ~Gone(b, p)

\* the lists of changed files that the callbacks of a target were called with
Passed(path) ==
    {last.calls[k].args[1] : k \in {n \in 1..Len(last.calls) :
                                      last.calls[n].task = path /\ last.calls[n].args # <<>>}}

\* C11: the start time is never modified; a scan that sees a non-ignored file
\* its task's table does not hold records the file's mtime, reports the task
\* changed when the mtime is greater than the start time (the file is in the
\* list passed to the callback exactly then), and, when nothing else of the
\* task changed, does not report the task when the mtime is at or before the
\* start time; a scan that directly follows a scan lists nothing.
C11_FirstSight ==
    /\ _start = StartTime
    /\ Scanned =>
          \A i \in 1..Len(last.before) : \A f \in Files :
              FirstSeen(last.before[i], f) =>
                  /\ f \in DOMAIN _tasks[i].mtimes
                  /\ _tasks[i].mtimes[f] = fs[f]
                  /\ fs[f] > _start => last.before[i].path \in Elems(last.changed)
                  /\ (fs[f] <= _start /\ NothingElse(last.before[i], f)) =>
                        last.before[i].path \notin Elems(last.changed)
                  /\ \A l \in Passed(last.before[i].path) : f \in Elems(l) <=> fs[f] > _start
    /\ ScannedTwice => last.filepaths = <<>>

C11_Witness ==
    /\ Scanned
    /\ \E i, j \in 1..Len(last.before) :
          /\ FirstSeen(last.before[i], W_A) /\ fs[W_A] <= _start
          /\ NothingElse(last.before[i], W_A)
          /\ last.before[i].mtimes # <<>>
          /\ FirstSeen(last.before[j], W_B) /\ fs[W_B] > _start
          /\ Passed(last.before[j].path) # {}

\* f is first seen by the scan of task b, with an mtime after the start time
Added(b, f) == FirstSeen(b, f) /\ fs[f] > _start

\* C12: every path of a scan's changed-path list is a file that the diff of a
\* task reported changed found added after the start time, or modified; a
\* file first seen with an mtime at or before the start time is not listed.
C12_OnlyChanges ==
    Scanned =>
        \A p \in Elems(last.filepaths) :
            \E i \in 1..Len(last.before) :
                /\ Added(last.before[i], p) \/ ModifiedSince(last.before[i], p)
                /\ last.before[i].path \in Elems(last.changed)

\* the last call was an examine in which the expansion of pattern t failed
GlobFailed(t) == last.kind \in {"scan", "raised"} /\ t \in last.fault.glob

\* C13: an examine call in which the expansion of a glob task's pattern fails
\* returns, does not report the task changed, does not invoke its callback,
\* and lists no path on its account.
C13_GlobFailureIsNoChange ==
    \A t \in {T_GLOB} :
        GlobFailed(t) =>
            /\ last.kind = "scan"
            /\ t \notin Elems(last.changed)
            /\ ~Called(t)
            /\ Len(last.before) = 1 => last.filepaths = <<>> /\ last.delay = NoDelay

\* something under the target of task b differs from its table, as it was
\* before the scan
Pending(b) == \E f \in Files : Added(b, f) \/ ModifiedSince(b, f) \/ Gone(b, f)

\* the events of one kind in the trace of the last examine call, in order
Events(kind) == SelectSeq(last.trace, LAMBDA e : e[1] = kind)

\* C14: a scan diffs every task once, in registration order; it invokes the
\* callback of a task once when something of the task changed and not at all
\* otherwise; a callback runs right after the diff of its task, before the
\* diff of the next task.
C14_CallbackFiring ==
    Scanned =>
        /\ Events("diff") = [i \in 1..Len(last.before) |-> <<"diff", last.before[i].path>>]
        /\ \A i \in 1..Len(last.before) :
              Cardinality({k \in 1..Len(last.trace) :
                              last.trace[k] = <<"call", last.before[i].path>>})
                  = IF Pending(last.before[i]) /\ last.before[i].func # None THEN 1 ELSE 0
        /\ \A k \in 1..Len(last.trace) :
              last.trace[k][1] = "call" =>
                  k > 1 /\ last.trace[k - 1] = <<"diff", last.trace[k][2]>>
        /\ Len(last.calls) = Len(Events("call"))
        /\ \A k \in 1..Len(last.calls) : last.calls[k].task = Events("call")[k][2]

C14_Witness ==
    /\ Scanned
    /\ Len(last.trace) = 4
    /\ last.trace[2][1] = "call"
    /\ last.trace[4][1] = "call"
    /\ last.since = 1

\* the last examine call ended with an exception of the given cause
Raised(cause) == last.kind = "raised" /\ last.raised.cause = cause

\* the last call is a scan in which nothing failed, and the call before it
\* is an examine that ended with an exception of the given cause, with
\* nothing between the two
ScannedAfter(cause) ==
    /\ Scanned
    /\ last.prev = "raised"
    /\ last.prevraised.cause = cause
    /\ last.since = 0
    /\ last.fault = NoFault

\* the scan reports what differs between the tree and the table of task b
Reported(b) ==
    /\ Pending(b) => b.path \in Elems(last.changed)
    /\ \A f \in Files : (Added(b, f) \/ ModifiedSince(b, f)) => f \in Elems(last.filepaths)

\* C15: an examine call in which an invoked callback raises ends with that
\* error, the raising call being its last; the tasks after the raising one are
\* not diffed, their callbacks are not invoked and their tables are as before
\* the call; the scan that follows reports what changed in those tasks.
C15_CallbackFailurePropagates ==
    /\ (last.kind \in {"scan", "raised"} /\ \E t \in last.fault.call : Called(t)) =>
          Raised("callback")
    /\ Raised("callback") =>
          /\ last.calls # <<>>
          /\ last.calls[Len(last.calls)].task = last.before[last.raised.at].path
          /\ \A j \in (last.raised.at + 1)..Len(last.before) :
                /\ _tasks[j] = last.before[j]
                /\ ~Called(last.before[j].path)
                /\ <<"diff", last.before[j].path>> \notin Elems(last.trace)
    /\ ScannedAfter("callback") =>
          \A j \in (last.prevraised.at + 1)..Len(last.before) : Reported(last.before[j])

C15_Witness ==
    /\ ScannedAfter("callback")
    /\ last.prevraised.at = 1
    /\ Len(last.before) = 2
    /\ Added(last.before[2], W_A)
    /\ ModifiedSince(last.before[2], W_B)
    /\ Called(last.before[2].path)

\* C16: an examine call in which the reading of an mtime fails diffs the task
\* once and ends with the error, the tables of that task and of the tasks
\* after it being as before the call; the scan that follows reports what
\* changed in that task.
C16_FailedPollSuperseded ==
    /\ Raised("getmtime") =>
          /\ Events("diff")[Len(Events("diff"))] = <<"diff", last.before[last.raised.at].path>>
          /\ Len(Events("diff")) = last.raised.at
          /\ ~Called(last.before[last.raised.at].path)
          /\ \A j \in last.raised.at..Len(last.before) : _tasks[j] = last.before[j]
    /\ ScannedAfter("getmtime") => Reported(last.before[last.prevraised.at])

C16_Witness ==
    /\ ScannedAfter("getmtime")
    /\ Len(last.before) = 2
    /\ Added(last.before[last.prevraised.at], W_A)
    /\ ModifiedSince(last.before[last.prevraised.at], W_B)
    /\ last.before[last.prevraised.at].path \in Elems(last.changed)
    /\ Elems(last.filepaths) = {W_A, W_B}

\* C19: when the callback of a task raises, the table of the task holds the
\* mtimes of the files under its target; the scan that follows, with nothing
\* changed in between, does not report the task and does not invoke its
\* callback.
C19_CommittedBeforeCallback ==
    /\ Raised("callback") =>
          \A f \in Watched(last.before[last.raised.at]) :
              /\ f \in DOMAIN _tasks[last.raised.at].mtimes
              /\ _tasks[last.raised.at].mtimes[f] = fs[f]
    /\ ScannedAfter("callback") =>
          /\ last.before[last.prevraised.at].path \notin Elems(last.changed)
          /\ ~Called(last.before[last.prevraised.at].path)

\* C17: an examine call that pops a pending change invokes no callback and
\* leaves the registry, the tables and the start time as they were; the scan
\* that follows a pop reports what differs between the tree and the tables.
C17_PopBypassesScan ==
    /\ last.kind = "pop" =>
          /\ last.calls = <<>>
          /\ last.changed = <<>>
          /\ _tasks = last.before
          /\ _start = StartTime
    /\ (Scanned /\ last.prev = "pop") =>
          \A i \in 1..Len(last.before) : Reported(last.before[i])

C17_Witness ==
    /\ Scanned
    /\ last.prev = "pop"
    /\ last.since = 0
    /\ Len(drained.popped) = 2
    /\ \E i \in 1..Len(last.before) :
          /\ ModifiedSince(last.before[i], W_A)
          /\ Called(last.before[i].path)
    /\ last.filepaths = <<W_A>>

\* f lies below a directory, under the target of task b, whose name is in the
\* list of ignored directories
Pruned(b, f) ==
    /\ Below[b.path][f].under
    /\ \E k \in 1..Len(Below[b.path][f].dirs) :
          Below[b.path][f].dirs[k] \in {Chars[d] : d \in Elems(ignored_dirs)}

\* the list of ignored directories was never changed
Unconfigured == budget = MaxConfig

\* C18: a scan of a directory task does not record a file below an ignored
\* directory, at any depth, and does not list it; while the list of ignored
\* directories is as constructed no table holds such a file, and a task
\* reported changed has a file that is not below an ignored directory added,
\* modified or gone.
C18_IgnoredDirsPruned ==
    /\ Unconfigured =>
          \A i \in 1..Len(_tasks) : \A f \in Files :
              Pruned(_tasks[i], f) => f \notin DOMAIN _tasks[i].mtimes
    /\ Scanned =>
          \A i \in 1..Len(last.before) : \A f \in Files :
              Pruned(last.before[i], f) =>
                  /\ f \notin DOMAIN last.before[i].mtimes => f \notin DOMAIN _tasks[i].mtimes
                  /\ f \notin Elems(last.filepaths)
    /\ Scanned =>
          \A i \in 1..Len(last.before) :
              last.before[i].path \in Elems(last.changed) =>
                  \E f \in Files :
                      /\ \/ Added(last.before[i], f)
                         \/ ModifiedSince(last.before[i], f)
                         \/ Gone(last.before[i], f)
                      /\ Unconfigured => ~Pruned(last.before[i], f)

C18_Witness ==
    /\ Scanned
    /\ Unconfigured
    /\ last.since > 0
    /\ fs[W_GIT_X] > _start
    /\ fs[W_S_HG_Y] > _start
    /\ \E i \in 1..Len(last.before) :
          /\ DOMAIN last.before[i].mtimes = {W_A}
          /\ _tasks[i] = last.before[i]
    /\ last.changed = <<>>
    /\ last.filepaths = <<>>

\* something of task b is gone, and nothing of it was added after the start
\* time or modified
RemovalsOnly(b) ==
    /\ \E p \in Files : Gone(b, p)
    /\ \A f \in Files : ~Added(b, f) /\ ~ModifiedSince(b, f)

\* nothing of task b differs from its table
Unchanged(b) == \A f \in Files : ~Added(b, f) /\ ~ModifiedSince(b, f) /\ ~Gone(b, f)

\* the only changes the scan had to find are removals
OnlyRemovals ==
    /\ \E i \in 1..Len(last.before) : RemovalsOnly(last.before[i])
    /\ \A i \in 1..Len(last.before) :
          RemovalsOnly(last.before[i]) \/ Unchanged(last.before[i])

\* C20: every path a scan lists is a file that exists; a scan in which the
\* only changes are removals lists nothing and reports the tasks that lost a
\* file (callback invoked, float delay counted).
C20_RemovedNeverListed ==
    Scanned =>
        /\ \A p \in Elems(last.filepaths) : isfile(p)
        /\ OnlyRemovals =>
              /\ last.filepaths = <<>>
              /\ \A i \in 1..Len(last.before) :
                    RemovalsOnly(last.before[i]) =>
                        /\ last.before[i].path \in Elems(last.changed)
                        /\ last.before[i].func # None => Called(last.before[i].path)
                        /\ (last.before[i].delay.type = "float"
                                /\ last.before[i].delay.val > 0) =>
                              last.delay # NoDelay /\ last.delay.val >= last.before[i].delay.val

====
